---- MODULE Spec2Model ----
(***************************************************************************)
(* The signaling endpoint of run.py: the POST /api/offer handler, the      *)
(* pcs_map registry, the "closed" event handler it registers and the       *)
(* background task it schedules.  The handler runs on one asyncio event    *)
(* loop, so every action below is one run of the handler's code between    *)
(* two suspension points (the awaits on initialize and renegotiate).       *)
(* SmallWebRTCConnection is the external engine: its calls succeed or      *)
(* raise, and its closed event fires, as the environment chooses.          *)
(***************************************************************************)
EXTENDS Integers, FiniteSets, Sequences, TLC

\* Number of offer requests the clients send in one behaviour.
MaxRequests == 3

\* Number of closed events the engine fires in one behaviour, on any
\* connections.
MaxClosed == 2

\* request.get("pc_id") when the key is absent (None; the empty string is
\* falsy as well and takes the same branch).
NoId == 0

\* The handler's local pipecat_connection before it is bound.
NoConn == 0

Reqs == 1..MaxRequests

\* The connection objects that can be constructed: every request constructs
\* at most one.
Conns == 1..MaxRequests

\* The pc_id values a client can send: every identifier the engine can issue.
PcIds == 1..MaxRequests

\* The identifier the engine gives to the n-th connection it constructs
\* (webrtc_connection.pc_id, answer["pc_id"]): a name numbered by a
\* process-wide object counter, fixed for the life of the object.
EnginePcId(n) == n

\* The values request.get("restart_pc", False) reads: the key absent, or
\* present with a boolean.
RestartValues == {"absent", "true", "false"}

\* The request bodies as the handler reads them: pc_id, sdp, type and
\* restart_pc are each optional in the dict it receives; the values of sdp
\* and type are passed through unread.
AllBodies ==
    [pc_id : {NoId} \cup PcIds,
     has_sdp : BOOLEAN,
     has_type : BOOLEAN,
     restart_pc : RestartValues]

\* The bodies the clients of Spec send.  restart_pc is never read by the
\* handler's own branches, only handed on to renegotiate, whose outcome the
\* engine chooses, so Spec leaves the key out.
Bodies == {b \in AllBodies : b.restart_pc = "absent"}

\* The handler's request before a body arrives and after the handler returns.
NoBody == [pc_id |-> NoId, has_sdp |-> FALSE, has_type |-> FALSE, restart_pc |-> "absent"]

\* No engine call of the handler is in progress.
NoCall == [op |-> "none", sdp |-> "none", type |-> "none", restart_pc |-> FALSE]

\* No response was sent by the last step.
NoResponse ==
    [request |-> NoBody, branch |-> "none", conn |-> NoConn, status |-> 0, pc_id |-> NoId]

VARIABLES
    pc,          \* per request: "idle", "renegotiate", "initialize", "done"
    request,     \* per running handler: the body
    branch,      \* per running handler: "reuse" or "new", the branch line 79 took
    conn,        \* per running handler: the local pipecat_connection
    response,    \* the response the last step sent, with the request it answers
    pcs_map,     \* the registry: pc_id -> connection
    nconns,      \* SmallWebRTCConnection objects constructed so far
    pc_id_of,    \* per connection: its own pc_id
    engine,      \* per connection: "none", "new", "initializing", "ready", "failed"
    handlers,    \* per connection: closed handlers registered on it
    closed,      \* per connection: closed events fired on it
    answered,    \* per connection: an answer naming it has been returned
    scheduled,   \* per connection: add_task calls made for it
    task,        \* per connection: "none", "pending", "running", "finished",
                 \* "failed", "dropped": the application task added for it
    call         \* per running handler: the arguments of its engine call

vars == <<pc, request, branch, conn, response, pcs_map, nconns, pc_id_of,
          engine, handlers, closed, answered, scheduled, task, call>>

\* A slip: dict.clear() where pop was meant.
clear(map, key) == [k \in {} |-> map[k]]

\* dict.pop(key, None): remove the key when present, do nothing otherwise.
pop(map, key) == [k \in DOMAIN map \ {key} |-> map[k]]

\* A slip: the registry rebound to a dict of the one entry.
rebind(map, key, value) == [k \in {key} |-> value]

\* map[key] = value: insert, or overwrite the entry already there.
put(map, key, value) == [k \in DOMAIN map \cup {key} |-> IF k = key THEN value ELSE map[k]]

\* request["sdp"] and request["type"] both evaluate (no KeyError).
HasFields(req) == req.has_sdp /\ req.has_type

\* Line 79: pc_id and pc_id in pcs_map.
Known(req) == req.pc_id # NoId /\ req.pc_id \in DOMAIN pcs_map

Init ==
    /\ pc = [r \in Reqs |-> "idle"]
    /\ request = [r \in Reqs |-> NoBody]
    /\ branch = [r \in Reqs |-> "none"]
    /\ conn = [r \in Reqs |-> NoConn]
    /\ response = NoResponse
    /\ pcs_map = <<>>
    /\ nconns = 0
    /\ pc_id_of = [h \in Conns |-> NoId]
    /\ engine = [h \in Conns |-> "none"]
    /\ handlers = [h \in Conns |-> 0]
    /\ closed = [h \in Conns |-> 0]
    /\ answered = [h \in Conns |-> FALSE]
    /\ scheduled = [h \in Conns |-> 0]
    /\ task = [h \in Conns |-> "none"]
    /\ call = [r \in Reqs |-> NoCall]

\* A slip: restart_pc defaulted to True.
RestartFlagDefaultTrue(req) == req.restart_pc # "false"

\* Line 83: request.get("restart_pc", False).
RestartFlag(req) == IF req.restart_pc = "absent" THEN FALSE ELSE req.restart_pc = "true"

\* Lines 82-84 and 87: the keyword arguments of the engine call, each sdp
\* and type named by the request field whose value is passed.
EngineArgs(at, req) ==
    IF at = "renegotiate"
    THEN [op |-> "renegotiate", sdp |-> "request.sdp", type |-> "request.type",
          restart_pc |-> RestartFlag(req)]
    ELSE [op |-> "initialize", sdp |-> "request.sdp", type |-> "request.type",
          restart_pc |-> FALSE]

\* A slip: run_example_func called inline, so that the event loop takes up
\* no further request while an application task runs.
ArrivesWhenNoTaskRuns(r) ==
    /\ pc[r] = "idle" /\ (IF r = 1 THEN TRUE ELSE pc[r - 1] # "idle")
    /\ \A h \in Conns : task[h] # "running"

\* Requests are numbered in the order the handler starts on them.
Arrives(r) == pc[r] = "idle" /\ (IF r = 1 THEN TRUE ELSE pc[r - 1] # "idle")

\* The handler of request r suspends in an await: its locals stay alive.
Suspend(r, at, req, br, h) ==
    /\ pc' = [pc EXCEPT ![r] = at]
    /\ request' = [request EXCEPT ![r] = req]
    /\ branch' = [branch EXCEPT ![r] = br]
    /\ conn' = [conn EXCEPT ![r] = h]
    /\ call' = [call EXCEPT ![r] = EngineArgs(at, req)]
    /\ response' = NoResponse

\* The handler of request r ends and its locals die; the framework sends the
\* response: the answer with 200 when the handler returned, 500 when an
\* exception left it.
Return(r, req, br, h, code, id) ==
    /\ pc' = [pc EXCEPT ![r] = "done"]
    /\ request' = [request EXCEPT ![r] = NoBody]
    /\ branch' = [branch EXCEPT ![r] = "none"]
    /\ conn' = [conn EXCEPT ![r] = NoConn]
    /\ call' = [call EXCEPT ![r] = NoCall]
    /\ response' = [request |-> req, branch |-> br, conn |-> h, status |-> code, pc_id |-> id]

\* Lines 77-84 up to the await: the pc_id is a key of the registry, the
\* stored connection is reused and renegotiate is called on it.  A missing
\* sdp or type raises KeyError while the arguments are evaluated.
offer_reuse(r, req) ==
    /\ Arrives(r)
    /\ Known(req)
    /\ IF HasFields(req)
       THEN Suspend(r, "renegotiate", req, "reuse", pcs_map[req.pc_id])
       ELSE Return(r, req, "reuse", pcs_map[req.pc_id], 500, NoId)
    /\ UNCHANGED <<pcs_map, nconns, pc_id_of, engine, handlers, closed, answered,
                   scheduled, task>>

\* A slip: the connection stored in the registry as soon as it is
\* constructed, before initialize is awaited.
offer_new_stored(r, req) ==
    /\ Arrives(r)
    /\ ~Known(req)
    /\ LET h == nconns + 1 IN
        /\ nconns' = h
        /\ pc_id_of' = [pc_id_of EXCEPT ![h] = EnginePcId(h)]
        /\ pcs_map' = put(pcs_map, EnginePcId(h), h)
        /\ IF HasFields(req)
           THEN /\ Suspend(r, "initialize", req, "new", h)
                /\ engine' = [engine EXCEPT ![h] = "initializing"]
           ELSE /\ Return(r, req, "new", h, 500, NoId)
                /\ engine' = [engine EXCEPT ![h] = "new"]
    /\ UNCHANGED <<handlers, closed, answered, scheduled, task>>

\* Lines 77-79 and 85-87 up to the await: no pc_id, or one that is not a key
\* of the registry.  A connection is constructed, then initialize is called
\* on it; a missing sdp or type raises KeyError after the construction.
offer_new(r, req) ==
    /\ Arrives(r)
    /\ ~Known(req)
    /\ LET h == nconns + 1 IN
        /\ nconns' = h
        /\ pc_id_of' = [pc_id_of EXCEPT ![h] = EnginePcId(h)]
        /\ IF HasFields(req)
           THEN /\ Suspend(r, "initialize", req, "new", h)
                /\ engine' = [engine EXCEPT ![h] = "initializing"]
           ELSE /\ Return(r, req, "new", h, 500, NoId)
                /\ engine' = [engine EXCEPT ![h] = "new"]
    /\ UNCHANGED <<pcs_map, handlers, closed, answered, scheduled, task>>

\* A slip: the upsert keyed by the request's pc_id when it carries one.
AnswerKeyOfRequest(r) ==
    IF request[r].pc_id # NoId THEN request[r].pc_id ELSE pc_id_of[conn[r]]

\* The key of the upsert at line 100: answer["pc_id"], the identifier of the
\* handler's connection.
AnswerKey(r) == pc_id_of[conn[r]]

\* Lines 98-102: get the answer, upsert the connection under the answer's
\* pc_id, return the answer.
Respond(r) ==
    /\ pcs_map' = put(pcs_map, AnswerKey(r), conn[r])
    /\ answered' = [answered EXCEPT ![conn[r]] = TRUE]
    /\ Return(r, request[r], branch[r], conn[r], 200, AnswerKey(r))

\* A slip: the upsert of line 100 done in a finally block, so also when the
\* engine call raised.
RaiseStored(r) ==
    /\ Return(r, request[r], branch[r], conn[r], 500, NoId)
    /\ pcs_map' = put(pcs_map, AnswerKey(r), conn[r])
    /\ answered' = answered

\* An exception raised by the engine leaves the handler.
Raise(r) ==
    /\ Return(r, request[r], branch[r], conn[r], 500, NoId)
    /\ UNCHANGED <<pcs_map, answered>>

\* A slip: add_task dedented out of the else branch.
DispatchedOnEitherBranch(br) == 1

\* Lines 79-96: the add_task calls a handler makes once its engine call
\* has returned: one on the else branch, none on the renegotiation branch.
Dispatched(br) == IF br = "new" THEN 1 ELSE 0

\* A slip: the closed handler registered after the if/else, on either
\* branch.
renegotiate_returns_registering(r) ==
    /\ pc[r] = "renegotiate"
    /\ handlers' = [handlers EXCEPT ![conn[r]] = @ + 1]
    /\ scheduled' = [scheduled EXCEPT ![conn[r]] = @ + Dispatched(branch[r])]
    /\ Respond(r)
    /\ UNCHANGED <<nconns, pc_id_of, engine, closed, task>>

\* Lines 82-84 resumed, then 98-102: renegotiate returned.
renegotiate_returns(r) ==
    /\ pc[r] = "renegotiate"
    /\ scheduled' = [scheduled EXCEPT ![conn[r]] = @ + Dispatched(branch[r])]
    /\ Respond(r)
    /\ UNCHANGED <<nconns, pc_id_of, engine, handlers, closed, task>>

\* renegotiate raised.
renegotiate_raises(r) ==
    /\ pc[r] = "renegotiate"
    /\ Raise(r)
    /\ UNCHANGED <<nconns, pc_id_of, engine, handlers, closed, scheduled, task>>

\* Line 87 resumed, then 89-102: initialize returned; the closed handler is
\* registered, the application task is added to the request's background
\* tasks, the connection is stored and the answer returned.
initialize_returns(r) ==
    /\ pc[r] = "initialize"
    /\ engine' = [engine EXCEPT ![conn[r]] = "ready"]
    /\ handlers' = [handlers EXCEPT ![conn[r]] = @ + 1]
    /\ scheduled' = [scheduled EXCEPT ![conn[r]] = @ + Dispatched(branch[r])]
    /\ task' = [task EXCEPT ![conn[r]] = "pending"]
    /\ Respond(r)
    /\ UNCHANGED <<nconns, pc_id_of, closed>>

\* initialize raised: nothing after line 87 runs.
initialize_raises(r) ==
    /\ pc[r] = "initialize"
    /\ engine' = [engine EXCEPT ![conn[r]] = "failed"]
    /\ Raise(r)
    /\ UNCHANGED <<nconns, pc_id_of, handlers, closed, scheduled, task>>

RECURSIVE Sum(_, _)
Sum(f, n) == IF n = 0 THEN 0 ELSE f[n] + Sum(f, n - 1)

\* The closed events fired so far.
ClosedEvents == Sum(closed, MaxRequests)

\* A slip: the handler pops the pc_id local of the offer that created the
\* connection, which is None for a new session.
DiscardKeyOfOffer(h) == NoId

\* The key handle_disconnected removes: webrtc_connection.pc_id, the
\* identifier of the connection the event fired on.
DiscardKey(h) == pc_id_of[h]

\* Lines 89-92: the engine fires the closed event on a connection; the
\* handlers registered on it run handle_disconnected.
handle_disconnected(h) ==
    /\ h \in 1..nconns
    /\ ClosedEvents < MaxClosed
    /\ closed' = [closed EXCEPT ![h] = @ + 1]
    /\ pcs_map' = IF handlers[h] > 0 THEN pop(pcs_map, DiscardKey(h)) ELSE pcs_map
    /\ response' = NoResponse
    /\ UNCHANGED <<pc, request, branch, conn, nconns, pc_id_of, engine, handlers,
                   answered, scheduled, task, call>>

Next ==
    \/ \E r \in Reqs, req \in Bodies : offer_reuse(r, req)
    \/ \E r \in Reqs, req \in Bodies : offer_new(r, req)
    \/ \E r \in Reqs : renegotiate_returns(r)
    \/ \E r \in Reqs : renegotiate_raises(r)
    \/ \E r \in Reqs : initialize_returns(r)
    \/ \E r \in Reqs : initialize_raises(r)
    \/ \E h \in Conns : handle_disconnected(h)

Spec == Init /\ [][Next]_vars

----------------------------------------------------------------------------
\* The application tasks.  background_tasks belongs to the request: the
\* framework runs the tasks added to it after it has sent the response the
\* handler returned, each on the event loop beside the handlers, and runs
\* none of them when an exception left the handler.  The closed event,
\* whose handler reads and writes nothing of the tasks, is left out of
\* SpecTasks.

\* Lines 87 resumed, then 89-100: initialize returned, the closed handler
\* is registered and the task added, but the connection has no answer:
\* get_answer returns None and answer["pc_id"] raises at line 100.  The
\* task is never run.
initialize_returns_no_answer(r) ==
    /\ pc[r] = "initialize"
    /\ engine' = [engine EXCEPT ![conn[r]] = "ready"]
    /\ handlers' = [handlers EXCEPT ![conn[r]] = @ + 1]
    /\ scheduled' = [scheduled EXCEPT ![conn[r]] = @ + Dispatched(branch[r])]
    /\ task' = [task EXCEPT ![conn[r]] = "dropped"]
    /\ Raise(r)
    /\ UNCHANGED <<nconns, pc_id_of, closed>>

\* A slip: the task started with asyncio.create_task at line 96, so that it
\* runs whether or not the handler goes on to return its answer.
MayStartOnceAdded(h) == task[h] \in {"pending", "dropped"}

\* Line 96: a task added with add_task starts once the response of its
\* request has been sent.
MayStart(h) == task[h] = "pending"

\* The framework starts run_example_func(pipecat_connection, args).
task_starts(h) ==
    /\ MayStart(h)
    /\ task' = [task EXCEPT ![h] = "running"]
    /\ response' = NoResponse
    /\ UNCHANGED <<pc, request, branch, conn, pcs_map, nconns, pc_id_of, engine,
                   handlers, closed, answered, scheduled, call>>

\* run_example_func returns.
task_finishes(h) ==
    /\ task[h] = "running"
    /\ task' = [task EXCEPT ![h] = "finished"]
    /\ response' = NoResponse
    /\ UNCHANGED <<pc, request, branch, conn, pcs_map, nconns, pc_id_of, engine,
                   handlers, closed, answered, scheduled, call>>

\* A slip: a failed task is added and run again.
task_fails_and_retries(h) ==
    /\ task[h] = "running"
    /\ scheduled[h] < MaxRequests
    /\ task' = [task EXCEPT ![h] = "pending"]
    /\ scheduled' = [scheduled EXCEPT ![h] = @ + 1]
    /\ response' = NoResponse
    /\ UNCHANGED <<pc, request, branch, conn, pcs_map, nconns, pc_id_of, engine,
                   handlers, closed, answered, call>>

\* run_example_func raises: the exception is logged, nothing else happens.
task_fails(h) ==
    /\ task[h] = "running"
    /\ task' = [task EXCEPT ![h] = "failed"]
    /\ response' = NoResponse
    /\ UNCHANGED <<pc, request, branch, conn, pcs_map, nconns, pc_id_of, engine,
                   handlers, closed, answered, scheduled, call>>

NextTasks ==
    \/ \E r \in Reqs, req \in Bodies : offer_reuse(r, req)
    \/ \E r \in Reqs, req \in Bodies : offer_new(r, req)
    \/ \E r \in Reqs : renegotiate_returns(r)
    \/ \E r \in Reqs : renegotiate_raises(r)
    \/ \E r \in Reqs : initialize_returns(r)
    \/ \E r \in Reqs : initialize_raises(r)
    \/ \E r \in Reqs : initialize_returns_no_answer(r)
    \/ \E h \in Conns : task_starts(h)
    \/ \E h \in Conns : task_finishes(h)
    \/ \E h \in Conns : task_fails(h)

SpecTasks == Init /\ [][NextTasks]_vars

----------------------------------------------------------------------------
\* The offers with every form of restart_pc: the key absent, true or false.
\* The closed event, which no argument of an engine call depends on, is
\* left out of SpecArgs.
NextArgs ==
    \/ \E r \in Reqs, req \in AllBodies : offer_reuse(r, req)
    \/ \E r \in Reqs, req \in AllBodies : offer_new(r, req)
    \/ \E r \in Reqs : renegotiate_returns(r)
    \/ \E r \in Reqs : renegotiate_raises(r)
    \/ \E r \in Reqs : initialize_returns(r)
    \/ \E r \in Reqs : initialize_raises(r)

SpecArgs == Init /\ [][NextArgs]_vars

\* The identifier a connection carries once the engine has replaced it: one
\* that no connection was constructed with.
UpdatedPcId(h) == MaxRequests + h

AllPcIds == PcIds \cup {UpdatedPcId(h) : h \in Conns}

\* Lines 82-84 resumed, then 98-102, with an engine whose renegotiate gives
\* the connection a new pc_id: the answer carries the new identifier and
\* line 100 stores the connection under it.
renegotiate_returns_updated(r) ==
    /\ pc[r] = "renegotiate"
    /\ pc_id_of[conn[r]] = EnginePcId(conn[r])
    /\ LET id == UpdatedPcId(conn[r]) IN
        /\ pc_id_of' = [pc_id_of EXCEPT ![conn[r]] = id]
        /\ pcs_map' = put(pcs_map, id, conn[r])
        /\ answered' = [answered EXCEPT ![conn[r]] = TRUE]
        /\ Return(r, request[r], branch[r], conn[r], 200, id)
    /\ scheduled' = [scheduled EXCEPT ![conn[r]] = @ + Dispatched(branch[r])]
    /\ UNCHANGED <<nconns, engine, handlers, closed, task>>

NextRekey ==
    \/ \E r \in Reqs, req \in Bodies : offer_reuse(r, req)
    \/ \E r \in Reqs, req \in Bodies : offer_new(r, req)
    \/ \E r \in Reqs : renegotiate_returns(r)
    \/ \E r \in Reqs : renegotiate_returns_updated(r)
    \/ \E r \in Reqs : renegotiate_raises(r)
    \/ \E r \in Reqs : initialize_returns(r)
    \/ \E r \in Reqs : initialize_raises(r)
    \/ \E h \in Conns : handle_disconnected(h)

SpecRekey == Init /\ [][NextRekey]_vars

TypeOK ==
    /\ pc \in [Reqs -> {"idle", "renegotiate", "initialize", "done"}]
    /\ request \in [Reqs -> AllBodies]
    /\ branch \in [Reqs -> {"none", "reuse", "new"}]
    /\ conn \in [Reqs -> {NoConn} \cup Conns]
    /\ response.status \in {0, 200, 500}
    /\ DOMAIN pcs_map \subseteq AllPcIds
    /\ \A k \in DOMAIN pcs_map : pcs_map[k] \in Conns
    /\ nconns \in 0..MaxRequests
----------------------------------------------------------------------------
\* Shorthands of the properties below.

\* Connection h is stored in the registry under its own identifier.
Registered(h) == pc_id_of[h] \in DOMAIN pcs_map /\ pcs_map[pc_id_of[h]] = h

\* The same, in the state a step leads to.
RegisteredNext(h) == pc_id_of'[h] \in DOMAIN pcs_map' /\ pcs_map'[pc_id_of'[h]] = h

\* The step inserts connection h under the key id, which was no key before,
\* and keeps every entry that was there.
InsertsOnly(id, h) ==
    /\ id \notin DOMAIN pcs_map
    /\ DOMAIN pcs_map' = DOMAIN pcs_map \cup {id}
    /\ pcs_map'[id] = h
    /\ \A k \in DOMAIN pcs_map : pcs_map'[k] = pcs_map[k]

\* The step is the start of the handler of request r.
Starts(r) == pc[r] = "idle" /\ pc'[r] # "idle"

\* The step is the end of the handler of request r, resumed from an await.
Resumes(r) == pc[r] \in {"renegotiate", "initialize"} /\ pc'[r] = "done"

\* The handler of request r is suspended in an await.
Suspended(r) == pc[r] \in {"renegotiate", "initialize"}

\* The step starts a handler that takes the new-session branch for a request
\* that carries a pc_id.
StartsNewWithId(r) ==
    /\ Starts(r)
    /\ \/ branch'[r] = "new" /\ request'[r].pc_id # NoId
       \/ pc'[r] = "done" /\ response'.branch = "new" /\ response'.request.pc_id # NoId

C2_RenegotiationChangesNothing ==
    [][\A r \in Reqs :
        ((Starts(r) /\ (branch'[r] = "reuse" \/ (pc'[r] = "done" /\ response'.branch = "reuse")))
            \/ (Resumes(r) /\ branch[r] = "reuse")) =>
            /\ nconns' = nconns
            /\ scheduled' = scheduled
            /\ Cardinality(DOMAIN pcs_map') = Cardinality(DOMAIN pcs_map)]_vars

\* C3: no connection ever has more than one dispatch, and every connection
\* whose new-session offer returned its answer has exactly one, also after
\* renegotiations and closed events.
C3_DispatchedExactlyOnce ==
    /\ \A h \in Conns : scheduled[h] <= 1
    /\ \A h \in Conns : engine[h] = "ready" => scheduled[h] = 1
    /\ \A h \in Conns : engine[h] # "ready" => scheduled[h] = 0
    /\ response.status = 200 => scheduled[response.conn] = 1

\* A renegotiation of a connection that has reported closed was answered,
\* and the connection still has its one dispatch.
C3_Witness ==
    /\ response.status = 200
    /\ response.branch = "reuse"
    /\ closed[response.conn] > 0
    /\ scheduled[response.conn] = 1

\* C4: the pc_id of an answer just returned is a key of the registry and
\* resolves to the answering connection; and the entry of a connection that
\* has been answered goes away only in a step that fires closed on it.
C4_AnswerResolvable ==
    [][/\ response'.status = 200 =>
            /\ response'.pc_id \in DOMAIN pcs_map'
            /\ pcs_map'[response'.pc_id] = response'.conn
       /\ \A h \in Conns :
            (answered[h] /\ Registered(h) /\ ~RegisteredNext(h)) =>
                closed'[h] = closed[h] + 1]_vars

\* An answer was returned while another handler is suspended in renegotiate
\* on a second registered connection and a closed event has fired.
C4_Witness ==
    /\ response.status = 200
    /\ Registered(response.conn)
    /\ \E r \in Reqs : pc[r] = "renegotiate" /\ conn[r] # response.conn /\ Registered(conn[r])
    /\ \E h \in Conns : closed[h] > 0

\* C5 (as stated): every identifier in the registry belongs to a connection
\* that has not reported closed.
C5_RegistryHoldsOpenSessions ==
    \A id \in DOMAIN pcs_map : closed[pcs_map[id]] = 0
\* C6 (as stated): no two handlers are suspended in renegotiate on the same
\* connection at once, and two handlers running at once for requests that
\* carry the same pc_id work on one connection, not on two.
C6_CriticalSection ==
    \A r1, r2 \in Reqs :
        (r1 # r2 /\ Suspended(r1) /\ Suspended(r2)) =>
            /\ ~(pc[r1] = "renegotiate" /\ pc[r2] = "renegotiate" /\ conn[r1] = conn[r2])
            /\ (request[r1].pc_id # NoId /\ request[r1].pc_id = request[r2].pc_id) =>
                    conn[r1] = conn[r2]

\* C7: when a new-session offer that carries no pc_id is answered, the
\* connection it constructed is one no other handler holds and no registry
\* entry stores, the pc_id of the answer was no key before, and the registry
\* gains exactly that entry: one key more, every earlier entry unchanged.
C7_FreshEntryPerOffer ==
    [][\A r \in Reqs :
        (Resumes(r) /\ branch[r] = "new" /\ request[r].pc_id = NoId
            /\ response'.status = 200) =>
            /\ \A q \in Reqs \ {r} : conn[q] # conn[r]
            /\ \A k \in DOMAIN pcs_map : pcs_map[k] # conn[r]
            /\ InsertsOnly(response'.pc_id, conn[r])
            /\ Cardinality(DOMAIN pcs_map') = Cardinality(DOMAIN pcs_map) + 1]_vars

\* An offer without pc_id was answered when the registry already held the
\* connection of an earlier one, while a third such offer is in initialize.
C7_Witness ==
    /\ response.status = 200
    /\ response.branch = "new"
    /\ response.request.pc_id = NoId
    /\ Cardinality(DOMAIN pcs_map) = 2
    /\ \E r \in Reqs : pc[r] = "initialize" /\ request[r].pc_id = NoId

\* C8: a closed event on a connection stored in the registry removes the
\* entry under that connection's own identifier and no other: one key less,
\* every other entry unchanged.
C8_ClosedRemovesOwnEntry ==
    [][\A h \in Conns :
        (closed'[h] = closed[h] + 1 /\ Registered(h)) =>
            /\ DOMAIN pcs_map' = DOMAIN pcs_map \ {pc_id_of[h]}
            /\ Cardinality(DOMAIN pcs_map') = Cardinality(DOMAIN pcs_map) - 1
            /\ \A k \in DOMAIN pcs_map' : pcs_map'[k] = pcs_map[k]]_vars

\* A closed event has removed the entry of an answered connection, and the
\* entry of another connection, which has not closed, is still in the
\* registry.
C8_Witness ==
    /\ response = NoResponse
    /\ \E h \in Conns :
        /\ answered[h] /\ closed[h] = 1 /\ ~Registered(h)
        /\ \E g \in Conns \ {h} : Registered(g) /\ closed[g] = 0

\* C9 (as stated): a closed event that fires on a connection after the
\* first one leaves the registry unchanged.
C9_LaterClosedChangesNothing ==
    [][\A h \in Conns :
        (closed'[h] = closed[h] + 1 /\ closed[h] >= 1) => pcs_map' = pcs_map]_vars

\* C10 (as stated): an offer that lacks sdp or type is answered with a 4xx
\* status, on either branch, and its handler leaves the registry and the
\* dispatches unchanged.
C10_MalformedIsClientError ==
    [][\A r \in Reqs :
        (Starts(r) /\ pc'[r] = "done" /\ ~HasFields(response'.request)) =>
            /\ response'.status \in 400..499
            /\ pcs_map' = pcs_map
            /\ scheduled' = scheduled]_vars
\* C11: a handler whose engine call raised ends in that step with a 5xx
\* status and leaves the registry, the dispatches and the tasks unchanged;
\* a connection whose initialize raised is stored under no key, has no
\* dispatch, is held by no handler, and is never initialized again.
C11_NegotiationFailure ==
    [][/\ \A r \in Reqs :
            (Resumes(r) /\ response'.status # 200) =>
                /\ response'.status \in 500..599
                /\ pcs_map' = pcs_map
                /\ scheduled' = scheduled
                /\ task' = task
       /\ \A h \in Conns :
            engine'[h] = "failed" =>
                /\ \A k \in DOMAIN pcs_map' : pcs_map'[k] # h
                /\ scheduled'[h] = 0
                /\ \A q \in Reqs : conn'[q] # h
       /\ \A h \in Conns : engine[h] = "failed" => engine'[h] = "failed"]_vars

\* A renegotiation has just failed while the registry holds its connection,
\* and the initialize of another connection failed before.
C11_Witness ==
    /\ response.status = 500
    /\ response.branch = "reuse"
    /\ HasFields(response.request)
    /\ Registered(response.conn)
    /\ \E h \in Conns : engine[h] = "failed"
\* The handler of the next request can start.
OfferEnabled(r) ==
    ENABLED (\E req \in Bodies : offer_reuse(r, req) \/ offer_new(r, req))

\* C12: when the answer of a new-session offer is returned its task has not
\* even started, so the response waits on no part of it; and whatever the
\* tasks do, the next offer can start.
C12_ResponseNeverWaitsOnTask ==
    /\ (response.status = 200 /\ response.branch = "new") =>
            task[response.conn] = "pending"
    /\ \A r \in Reqs :
            (pc[r] = "idle" /\ (IF r = 1 THEN TRUE ELSE pc[r - 1] # "idle")) =>
                OfferEnabled(r)

\* A new-session offer has been answered while the task of an earlier
\* connection is still running.
C12_Witness ==
    /\ response.status = 200
    /\ response.branch = "new"
    /\ \E h \in Conns \ {response.conn} : task[h] = "running"

\* C13: the step in which a running task fails changes nothing but the
\* task: not the registry, the answers given, the dispatches or any handler;
\* a failed task stays failed and its connection gets no further dispatch.
C13_TaskFailureIsContained ==
    [][\A h \in Conns :
        /\ (task[h] = "running" /\ task'[h] \notin {"running", "finished"}) =>
            /\ task'[h] = "failed"
            /\ pcs_map' = pcs_map
            /\ answered' = answered
            /\ scheduled' = scheduled
            /\ pc' = pc /\ conn' = conn /\ request' = request
        /\ task[h] = "failed" =>
            /\ task'[h] = "failed"
            /\ scheduled'[h] = scheduled[h]]_vars

\* After the task of one connection failed, a later offer was answered and
\* the failed connection is still in the registry with its one dispatch.
C13_Witness ==
    /\ response.status = 200
    /\ \E h \in Conns \ {response.conn} :
        task[h] = "failed" /\ Registered(h) /\ scheduled[h] = 1

\* C18: a task starts only from pending, on a connection whose closed
\* handler is registered and whose answer has been stored and returned; the
\* task of a new-session handler that raised after add_task is dropped, and
\* a dropped task never starts.
C18_TaskStartsAfterAnswer ==
    [][/\ \A h \in Conns :
            /\ (task'[h] = "running" /\ task[h] # "running") =>
                /\ task[h] = "pending"
                /\ handlers[h] >= 1
                /\ answered[h]
            /\ task[h] = "dropped" => task'[h] = "dropped"
       /\ \A r \in Reqs :
            (Resumes(r) /\ response'.status # 200
                /\ scheduled'[conn[r]] > scheduled[conn[r]]) =>
                    task'[conn[r]] = "dropped"]_vars

\* One task was dropped with its failed request and another one runs.
C18_Witness ==
    /\ \E h \in Conns : task[h] = "dropped" /\ scheduled[h] = 1 /\ ~answered[h]
    /\ \E h \in Conns : task[h] = "running"
\* C14: a handler is suspended in renegotiate only on a connection whose
\* initialize has returned, and the registry, from which renegotiate takes
\* its connections, stores no other.
C14_InitializeBeforeRenegotiate ==
    /\ \A r \in Reqs :
        pc[r] = "renegotiate" =>
            /\ call[r].op = "renegotiate"
            /\ engine[conn[r]] = "ready"
    /\ \A k \in DOMAIN pcs_map : engine[pcs_map[k]] = "ready"

\* A renegotiate is in progress on one connection while another connection
\* is still in initialize.
C14_Witness ==
    /\ \E r \in Reqs : pc[r] = "renegotiate" /\ answered[conn[r]]
    /\ \E r \in Reqs : pc[r] = "initialize" /\ engine[conn[r]] = "initializing"

\* C15 (as stated): every connection constructed has exactly one closed
\* handler registered on it.
C15_EveryHandleOneConsumer ==
    \A h \in 1..nconns : handlers[h] = 1

\* C15 (amended): a connection has no closed handler until its initialize
\* has returned and exactly one from then on, none ever if initialize
\* raised or was never called; the start of a handler and the end of a
\* renegotiation register nothing; and a closed event changes the registry,
\* if at all, by removing the key that is the connection's own identifier,
\* and changes no handler, connection, dispatch or task.
C15_OneConsumerOnceInitialized ==
    [][/\ \A h \in Conns :
            /\ handlers'[h] <= 1
            /\ handlers'[h] = 1 <=> engine'[h] = "ready"
       /\ \A r \in Reqs :
            (Starts(r) \/ (Resumes(r) /\ branch[r] = "reuse")) => handlers' = handlers
       /\ \A h \in Conns :
            closed'[h] = closed[h] + 1 =>
                /\ DOMAIN pcs_map' \in {DOMAIN pcs_map, DOMAIN pcs_map \ {pc_id_of[h]}}
                /\ \A k \in DOMAIN pcs_map' : pcs_map'[k] = pcs_map[k]
                /\ UNCHANGED <<pc, request, branch, conn, call, nconns, pc_id_of,
                               engine, handlers, answered, scheduled, task>>]_vars

\* A renegotiation was answered on a connection that still has its one
\* handler and has seen a closed event, while another connection, whose
\* initialize raised, has none.
C15_Witness ==
    /\ response.status = 200
    /\ response.branch = "reuse"
    /\ handlers[response.conn] = 1
    /\ closed[response.conn] > 0
    /\ \E h \in Conns : engine[h] = "failed" /\ handlers[h] = 0
\* C16: while a handler is suspended in renegotiate, the engine call it
\* made has the request's sdp and type and a restart flag that is true
\* exactly when the request has restart_pc and it is true.
C16_RenegotiateArguments ==
    \A r \in Reqs :
        pc[r] = "renegotiate" =>
            /\ call[r].op = "renegotiate"
            /\ call[r].sdp = "request.sdp"
            /\ call[r].type = "request.type"
            /\ call[r].restart_pc = (request[r].restart_pc = "true")

\* Two renegotiations are in progress at once: one called with restart_pc
\* true and one without it.
C16_Witness ==
    \A v \in {"true", "absent"} :
        \E r \in Reqs :
            /\ pc[r] = "renegotiate"
            /\ request[r].restart_pc = v
            /\ call[r].restart_pc = (v = "true")

\* C17: every key of the registry is the current identifier of the
\* connection stored under it, and so no connection is stored under two
\* keys.
C17_KeyedByOwnIdentifier ==
    /\ \A k \in DOMAIN pcs_map : pc_id_of[pcs_map[k]] = k
    /\ \A k1, k2 \in DOMAIN pcs_map : pcs_map[k1] = pcs_map[k2] => k1 = k2
====
